---- MODULE Spec2Model ----
(***************************************************************************)
(* Model of src/main.rs: the chord recogniser find_chord and its helpers   *)
(* freq_to_pitch, roll_template and dot.                                   *)
(*                                                                         *)
(* Numbers. The program computes in f32. Magnitudes are modelled as        *)
(* non-negative integers, and a chroma value as the exact fraction         *)
(* pitch_energy[i] / unit: the accumulation keeps unit = 1, and the        *)
(* normalisation's division by max_val sets unit to max_val. Scores are    *)
(* sums of numerators over the same unit, and the comparison with 0.4 is   *)
(* the comparison of fractions. Frequencies are fractions fnum / fden Hz.  *)
(* 12-element arrays are functions on 0..11.                               *)
(***************************************************************************)
EXTENDS Integers, Sequences, FiniteSets

VARIABLES pc, n, sr, input, pitch_energy, unit, best_score, best_chord,
          result, top_notes, freq, note_number, pitch_class

vars == <<pc, n, sr, input, pitch_energy, unit, best_score, best_chord,
          result, top_notes, freq, note_number, pitch_class>>

(* ------------------------------ bounds -------------------------------- *)

\* longest sample buffer
MaxN == 12
\* largest magnitude of one frequency bin
MaxMag == 1
\* a synthetic chroma vector holds values 0/ChromaDen .. ChromaDen/ChromaDen
ChromaDen == 5
\* a synthetic chroma vector that is not a triad has at most this many
\* non-zero entries
MaxSupport == 2
\* freq_to_pitch is applied to 0..MaxFreqNum Hz and to 0..MaxFreqNum centi-Hz
MaxFreqNum == 600

\* sample rates: sub-bass only, f0 = 70 Hz, C3, A3, exactly 1500 Hz at bin 4,
\* and ultrasonic only (for n = 12)
SampleRates == {8, 840, 1572, 2640, 4500, 48000}

(* ----------------------------- constants ------------------------------ *)

Pitches == 0..11

Arr(s) == [i \in Pitches |-> s[i + 1]]

NOTE_NAMES == <<"C", "C#", "D", "D#", "E", "F", "F#", "G", "G#", "A", "A#", "B">>

MAJOR_TEMPLATE == Arr(<<1, 0, 0, 0, 1, 0, 0, 1, 0, 0, 0, 0>>)

MINOR_TEMPLATE == Arr(<<1, 0, 0, 1, 0, 0, 0, 1, 0, 0, 0, 0>>)

Zeros == [i \in Pitches |-> 0]

\* 70.0 and 1500.0 Hz
BandLow == 70
BandHigh == 1500

\* the threshold 0.4 = ThresholdNum / ThresholdDen
ThresholdNum == 4
ThresholdDen == 10

\* midi = 69 + 12 * log2(freq / 440)
A4Note == 69
A4Freq == 440

\* i32::MIN: the value of (-inf) as i32
MinI32 == (-2147483647) - 1

(* --------------------------- freq_to_pitch ---------------------------- *)

\* 2^((2i-1)/24), i = 1..12, in units of 1/BoundScale: the frequency ratios
\* at which round(12 * log2(ratio)) steps from i-1 to i
BoundScale == 10000
SemitoneBounds ==
    <<10293, 10905, 11554, 12241, 12968, 13740,
      14557, 15422, 16339, 17311, 18340, 19431>>

\* round(base + 12 * log2(x / y)) for x, y > 0
RECURSIVE RoundedMidi(_, _, _)
RoundedMidi(x, y, base) ==
    IF x < y THEN RoundedMidi(2 * x, y, base - 12)
    ELSE IF x >= 2 * y THEN RoundedMidi(x, 2 * y, base + 12)
    ELSE base + Cardinality({i \in 1..12 : x * BoundScale >= SemitoneBounds[i] * y})

\* note_number = midi.round() as i32, for freq = fnum / fden >= 0
NoteNumber(fnum, fden) ==
    IF fnum = 0 THEN MinI32 ELSE RoundedMidi(fnum, A4Freq * fden, A4Note)

\* Rust's a % b for b > 0: the remainder has the sign of a
RustRem(a, b) ==
    IF a >= 0 THEN a % b
    ELSE IF a % b = 0 THEN 0 ELSE (a % b) - b

\* DropCorrection: the pitch class without the `if pitch_class < 0` correction
DropCorrection(note) == RustRem(note, 12)

\* lines 28-34: note_number % 12, plus 12 when negative
PitchClassOf(note) ==
    LET r == RustRem(note, 12)
    IN  IF r < 0 THEN r + 12 ELSE r

freq_to_pitch(fnum, fden) == PitchClassOf(NoteNumber(fnum, fden))

(* ------------------------ roll_template and dot ----------------------- *)

RECURSIVE RollBackLoop(_, _, _, _)
RollBackLoop(template, shift, i, out) ==
    IF i = 12 THEN out
    ELSE RollBackLoop(template, shift, i + 1,
                      [out EXCEPT ![i] = template[(i + shift) % 12]])

\* RollBackwards: out[i] = template[(i + shift) % 12], the opposite rotation
RollBackwards(template, shift) == RollBackLoop(template, shift, 0, Zeros)

RECURSIVE RollLoop(_, _, _, _)
RollLoop(template, shift, i, out) ==
    IF i = 12 THEN out
    ELSE RollLoop(template, shift, i + 1,
                  [out EXCEPT ![(i + shift) % 12] = template[i]])

roll_template(template, shift) == RollLoop(template, shift, 0, Zeros)

RECURSIVE DotLoop(_, _, _, _)
DotLoop(a, b, i, sum) ==
    IF i = 12 THEN sum ELSE DotLoop(a, b, i + 1, sum + a[i] * b[i])

\* DotFromOne: the sum without the product at index 0
DotFromOne(a, b) == DotLoop(a, b, 1, 0)

dot(a, b) == DotLoop(a, b, 0, 0)

(* ------------------------------ the scan ------------------------------ *)

\* ScanAll: the loop without .take(n/2)
ScanAll(len) == len

\* .take(n/2)
TakeLimit(len) == len \div 2

\* LowPassOnly: only the upper band limit is tested
LowPassOnly(fnum, fden) == ~(fnum > BandHigh * fden)

\* not (freq < 70.0 || freq > 1500.0)
InBand(fnum, fden) == ~(fnum < BandLow * fden \/ fnum > BandHigh * fden)

RECURSIVE ScanLoop(_, _, _, _, _)
ScanLoop(len, rate, spectrum, k, pe) ==
    IF k >= TakeLimit(len) THEN pe
    ELSE IF ~InBand(k * rate, len) THEN ScanLoop(len, rate, spectrum, k + 1, pe)
    ELSE LET p == freq_to_pitch(k * rate, len)
         IN  ScanLoop(len, rate, spectrum, k + 1,
                      [pe EXCEPT ![p] = @ + spectrum[k]])

\* lines 96-109
ScanChroma(len, rate, spectrum) == ScanLoop(len, rate, spectrum, 0, Zeros)

(* --------------------------- normalisation ---------------------------- *)

RECURSIVE MaxLoop(_, _, _)
MaxLoop(pe, i, acc) ==
    IF i = 12 THEN acc
    ELSE MaxLoop(pe, i + 1, IF pe[i] > acc THEN pe[i] ELSE acc)

\* FirstElement: the first element taken for the maximum
FirstElement(pe) == pe[0]

\* pitch_energy.iter().cloned().reduce(f32::max)
MaxVal(pe) == MaxLoop(pe, 1, pe[0])

RECURSIVE SumLoop(_, _, _)
SumLoop(pe, i, acc) == IF i = 12 THEN acc ELSE SumLoop(pe, i + 1, acc + pe[i])

\* DivideBySum: every element divided by the sum of the elements
DivideBySum(pe, u) == IF SumLoop(pe, 0, 0) > 0 THEN SumLoop(pe, 0, 0) ELSE u

\* DivideAlways: the division without the test max_val > 0.0
DivideAlways(pe, u) == MaxVal(pe)

\* the unit after `if max_val > 0.0 { *v /= max_val }`: (v/u) / (max/u) = v/max
NormalizedUnit(pe, u) == IF MaxVal(pe) > 0 THEN MaxVal(pe) ELSE u

(* -------------------------- strongest classes ------------------------- *)

\* 0.0 / 0.0: the elements of an all-zero vector divided by its maximum
HasNaN(pe, u) == u = 0

\* the place of index a after the stable ascending sort_by of 0..11
Rank(pe, a) ==
    Cardinality({b \in Pitches : pe[b] < pe[a] \/ (pe[b] = pe[a] /\ b < a)})

\* indices.iter().rev().take(3)
TopThree(pe) == [j \in 1..3 |-> CHOOSE a \in Pitches : Rank(pe, a) = 12 - j]

(* ------------------------------ matching ------------------------------ *)

NoteName(root) == NOTE_NAMES[root + 1]

Label(root, quality) == NoteName(root) \o " " \o quality

\* TakesLater: a later hypothesis with an equal score replaces the best one
TakesLater(score, best) == score >= best

\* major_score > best_score, minor_score > best_score
Beats(score, best) == score > best

\* roll_template(&MAJOR_TEMPLATE, root) and roll_template(&MINOR_TEMPLATE, root)
RolledMajor == [root \in Pitches |-> roll_template(MAJOR_TEMPLATE, root)]
RolledMinor == [root \in Pitches |-> roll_template(MINOR_TEMPLATE, root)]

RECURSIVE MatchLoop(_, _, _)
MatchLoop(pe, root, best) ==
    IF root = 12 THEN best
    ELSE LET major == RolledMajor[root]
             minor == RolledMinor[root]
             major_score == dot(pe, major)
             minor_score == dot(pe, minor)
             b1 == IF Beats(major_score, best.score)
                   THEN [score |-> major_score, chord |-> Label(root, "major")]
                   ELSE best
             b2 == IF Beats(minor_score, b1.score)
                   THEN [score |-> minor_score, chord |-> Label(root, "minor")]
                   ELSE b1
         IN  MatchLoop(pe, root + 1, b2)

\* lines 131-150
MatchBest(pe) == MatchLoop(pe, 0, [score |-> 0, chord |-> "Unknown"])

\* AtOrBelow: best_score <= 0.4
AtOrBelow(score, u) == score * ThresholdDen <= ThresholdNum * u

\* best_score < 0.4, for best_score = score / u
BelowThreshold(score, u) == score * ThresholdDen < ThresholdNum * u

\* lines 152-156
FinalChord(score, u, chord) == IF BelowThreshold(score, u) THEN "Unknown" ELSE chord

\* find_chord from the transform on: the label for n samples at rate sr whose
\* transform has the magnitudes of spectrum
FindChord(len, rate, spectrum) ==
    LET pe == ScanChroma(len, rate, spectrum)
        u == NormalizedUnit(pe, 1)
        best == MatchBest(pe)
    IN  IF HasNaN(pe, u) THEN "panic" ELSE FinalChord(best.score, u, best.chord)

(* ------------------------------- state -------------------------------- *)

\* the magnitudes of the transform of n real samples: |X[n-k]| = |X[k]|
Spectra(len) ==
    {[k \in 0..(len - 1) |-> IF k <= len \div 2 THEN h[k] ELSE h[len - k]] :
        h \in [0..(len \div 2) -> 0..MaxMag]}

Locals ==
    /\ input = <<>>
    /\ pitch_energy = Zeros
    /\ unit = 1
    /\ best_score = 0
    /\ best_chord = "Unknown"
    /\ result = ""
    /\ top_notes = <<>>

NoPitchCall ==
    /\ freq = <<0, 1>>
    /\ note_number = 0
    /\ pitch_class = 0

\* find_chord has read the file: n samples at sample rate sr
Init ==
    /\ pc = "start"
    /\ n \in 0..MaxN
    /\ sr \in SampleRates
    /\ Locals
    /\ NoPitchCall

\* SkipEmptyCheck: the buffer is never taken to be empty
SkipEmptyCheck(len) == FALSE

\* n == 0
IsEmpty(len) == len = 0

\* lines 79-81
EmptyReturn ==
    /\ pc = "start"
    /\ IsEmpty(n)
    /\ pc' = "done"
    /\ result' = "Unknown"
    /\ UNCHANGED <<n, sr, input, pitch_energy, unit, best_score, best_chord,
                   top_notes, freq, note_number, pitch_class>>

\* lines 83-93: the Hann window and the forward FFT, of which the model
\* keeps the magnitude of each bin
Transform ==
    /\ pc = "start"
    /\ ~IsEmpty(n)
    /\ \E m \in Spectra(n) : input' = m
    /\ pc' = "transformed"
    /\ UNCHANGED <<n, sr, pitch_energy, unit, best_score, best_chord, result,
                   top_notes, freq, note_number, pitch_class>>

\* lines 96-109
Scan ==
    /\ pc = "transformed"
    /\ pitch_energy' = ScanChroma(n, sr, input)
    /\ pc' = "scanned"
    /\ UNCHANGED <<n, sr, input, unit, best_score, best_chord, result,
                   top_notes, freq, note_number, pitch_class>>

\* lines 111-118
Normalize ==
    /\ pc = "scanned"
    /\ unit' = NormalizedUnit(pitch_energy, unit)
    /\ pc' = "normalized"
    /\ UNCHANGED <<n, sr, input, pitch_energy, best_score, best_chord, result,
                   top_notes, freq, note_number, pitch_class>>

\* lines 120-128: partial_cmp(..).unwrap() panics on a NaN
TopNotes ==
    /\ pc = "normalized"
    /\ IF HasNaN(pitch_energy, unit)
       THEN pc' = "panicked" /\ result' = "panic" /\ UNCHANGED top_notes
       ELSE pc' = "ranked" /\ top_notes' = TopThree(pitch_energy) /\ UNCHANGED result
    /\ UNCHANGED <<n, sr, input, pitch_energy, unit, best_score, best_chord,
                   freq, note_number, pitch_class>>

\* lines 131-150
Match ==
    /\ pc = "ranked"
    /\ LET best == MatchBest(pitch_energy)
       IN  /\ best_score' = best.score
           /\ best_chord' = best.chord
    /\ pc' = "matched"
    /\ UNCHANGED <<n, sr, input, pitch_energy, unit, result,
                   top_notes, freq, note_number, pitch_class>>

\* lines 152-156
Decide ==
    /\ pc = "matched"
    /\ result' = FinalChord(best_score, unit, best_chord)
    /\ pc' = "done"
    /\ UNCHANGED <<n, sr, input, pitch_energy, unit, best_score, best_chord,
                   top_notes, freq, note_number, pitch_class>>

Next ==
    EmptyReturn \/ Transform \/ Scan \/ Normalize \/ TopNotes \/ Match \/ Decide

Spec == Init /\ [][Next]_vars

(* --------- the matcher applied to synthetic chroma vectors ------------ *)

Support(c) == {i \in Pitches : c[i] # 0}

\* the chroma vector whose entries in S are v and whose other entries are 0
SparseVector(S, v) == [i \in Pitches |-> IF i \in S THEN v[i] ELSE 0]

\* the pitch classes of a synthetic chroma vector: at most MaxSupport of them,
\* or those of a major or a minor triad
ToneSets ==
    {T \in SUBSET Pitches : Cardinality(T) <= MaxSupport}
        \cup {Support(RolledMajor[r]) : r \in Pitches}
        \cup {Support(RolledMinor[r]) : r \in Pitches}

MatchInit ==
    /\ pc = "ranked"
    /\ n = 1
    /\ sr = 1
    /\ input = <<>>
    /\ \E S \in ToneSets : \E v \in [S -> 1..ChromaDen] :
          pitch_energy = SparseVector(S, v)
    /\ unit = ChromaDen
    /\ best_score = 0
    /\ best_chord = "Unknown"
    /\ result = ""
    /\ top_notes = <<>>
    /\ NoPitchCall

MatchNext == Match \/ Decide

MatchSpec == MatchInit /\ [][MatchNext]_vars

(* ---------------- freq_to_pitch applied to frequencies ---------------- *)

FreqInputs ==
    ((0..MaxFreqNum) \X {1, 100}) \cup {<<26163, 100>>}

PitchInit ==
    /\ pc = "pitch"
    /\ n = 1
    /\ sr = 1
    /\ Locals
    /\ freq \in FreqInputs
    /\ note_number = 0
    /\ pitch_class = 0

\* lines 22-35
FreqToPitch ==
    /\ pc = "pitch"
    /\ note_number' = NoteNumber(freq[1], freq[2])
    /\ pitch_class' = PitchClassOf(NoteNumber(freq[1], freq[2]))
    /\ pc' = "pitched"
    /\ UNCHANGED <<n, sr, input, pitch_energy, unit, best_score, best_chord,
                   result, top_notes, freq>>

PitchNext == FreqToPitch

PitchSpec == PitchInit /\ [][PitchNext]_vars

(* ============================ properties ============================== *)

\* the (root, quality) hypotheses in evaluation order: h = 2 * root for major,
\* 2 * root + 1 for minor
Hyps == 0..23

MajorSum(c, r) == c[r] + c[(r + 4) % 12] + c[(r + 7) % 12]

MinorSum(c, r) == c[r] + c[(r + 3) % 12] + c[(r + 7) % 12]

HypSum(c, h) == IF h % 2 = 0 THEN MajorSum(c, h \div 2) ELSE MinorSum(c, h \div 2)

HypName(h) ==
    NOTE_NAMES[(h \div 2) + 1] \o (IF h % 2 = 0 THEN " major" ELSE " minor")

ChordLabels == {HypName(h) : h \in Hyps}

\* the best score over the 24 hypotheses
TopSum(c) == CHOOSE s \in {HypSum(c, h) : h \in Hyps} : \A h \in Hyps : HypSum(c, h) <= s

\* the first hypothesis, in evaluation order, that attains the best score
FirstTop(c) ==
    CHOOSE h \in Hyps :
        /\ HypSum(c, h) = TopSum(c)
        /\ \A g \in 0..(h - 1) : HypSum(c, g) < TopSum(c)

\* the bins that are to contribute: k < n/2 and 70 <= k * sr / n <= 1500
BandBins == {k \in 0..(n - 1) : k < n \div 2 /\ BandLow * n <= k * sr /\ k * sr <= BandHigh * n}

\* the spectrum with every bin outside BandBins silenced
Masked == [k \in 0..(n - 1) |-> IF k \in BandBins THEN input[k] ELSE 0]

Transformed ==
    pc \in {"transformed", "scanned", "normalized", "ranked", "matched", "done", "panicked"}

(* C1, as stated: in the final decision, a chroma vector whose best score is
   exactly 0.4 gives "Unknown", and one whose best score is strictly above 0.4
   gives a chord label. *)
C1_ExactThresholdUnknown ==
    pc = "done" =>
        /\ (TopSum(pitch_energy) * ThresholdDen = ThresholdNum * unit
               => result = "Unknown")
        /\ (TopSum(pitch_energy) * ThresholdDen > ThresholdNum * unit
               => result \in ChordLabels)

(* C1, amended: in the final decision, a chroma vector whose best score is
   exactly 0.4 or strictly above 0.4 gives a chord label, and one whose best
   score is strictly below 0.4 gives "Unknown". *)
C1_ThresholdIsStrict ==
    pc = "done" =>
        /\ (TopSum(pitch_energy) * ThresholdDen >= ThresholdNum * unit
               => result \in ChordLabels)
        /\ (TopSum(pitch_energy) * ThresholdDen < ThresholdNum * unit
               => result = "Unknown")

C1_Witness ==
    /\ pc = "done"
    /\ TopSum(pitch_energy) * ThresholdDen = ThresholdNum * unit
    /\ result \in ChordLabels

(* C2: when the best score is positive, the matching loop selects the first
   hypothesis in evaluation order (root 0 major, root 0 minor, ..., root 11
   minor) that attains the maximum score. *)
C2_FirstMaximumWins ==
    (pc \in {"matched", "done"} /\ TopSum(pitch_energy) > 0) =>
        /\ best_score = TopSum(pitch_energy)
        /\ best_chord = HypName(FirstTop(pitch_energy))

\* a tie between major and minor at the winning root, and a tie with a later root
C2_Witness ==
    /\ pc = "matched"
    /\ TopSum(pitch_energy) > 0
    /\ FirstTop(pitch_energy) % 2 = 0
    /\ HypSum(pitch_energy, FirstTop(pitch_energy) + 1) = TopSum(pitch_energy)
    /\ \E h \in Hyps : /\ h \div 2 > FirstTop(pitch_energy) \div 2
                       /\ HypSum(pitch_energy, h) = TopSum(pitch_energy)
    /\ best_chord = HypName(FirstTop(pitch_energy))

\* the major template rotated by r, with 1.0 = u / u
MajorChroma(r, u) ==
    [i \in Pitches |-> IF i \in {r, (r + 4) % 12, (r + 7) % 12} THEN u ELSE 0]

(* C3: for every root r, the chroma vector equal to the major template rotated
   by r is reported as NOTE_NAMES[r] major with best score exactly 3.0, and
   no other of the 24 hypotheses reaches that score. *)
C3_RotatedMajorTemplate ==
    \A r \in Pitches :
        (pc = "done" /\ pitch_energy = MajorChroma(r, unit)) =>
            /\ result = NOTE_NAMES[r + 1] \o " major"
            /\ best_chord = result
            /\ best_score = 3 * unit
            /\ dot(pitch_energy, RolledMajor[r]) = 3 * unit
            /\ \A q \in Pitches :
                  /\ dot(pitch_energy, RolledMinor[q]) < 3 * unit
                  /\ (q # r => dot(pitch_energy, RolledMajor[q])
                                   < 3 * unit)

\* D major: 1.0 at D, F# and A
C3_Witness ==
    /\ pc = "done"
    /\ pitch_energy = MajorChroma(2, unit)
    /\ result = "D major"
    /\ best_score = 3 * unit

(* C4: when the sample sequence is empty, whatever the sample rate, find_chord
   returns "Unknown" in its first step, and the transform, the chroma
   accumulation and the matching do not run. *)
C4_EmptyShortCircuit ==
    [][(pc = "start" /\ n = 0) =>
          /\ pc' = "done"
          /\ result' = "Unknown"
          /\ UNCHANGED <<input, pitch_energy, unit, best_score, best_chord>>]_vars

C4_Witness ==
    /\ pc = "done"
    /\ n = 0
    /\ result = "Unknown"
    /\ input = <<>>
    /\ pitch_energy = Zeros

(* C5: after the normalization step the chroma vector is either all-zero, and
   then left as it was, or has maximum element exactly 1.0 with every element
   in [0, 1]. *)
C5_NormalizedChroma ==
    pc \in {"normalized", "ranked", "matched", "done", "panicked"} =>
        \/ /\ pitch_energy = Zeros
           /\ unit = 1
        \/ /\ \E i \in Pitches : pitch_energy[i] = unit
           /\ \A i \in Pitches : 0 <= pitch_energy[i] /\ pitch_energy[i] <= unit

\* a maximum above one bin's magnitude, and an element strictly between 0 and 1
C5_Witness ==
    /\ pc = "normalized"
    /\ unit > 1
    /\ \E i \in Pitches : pitch_energy[i] = unit
    /\ \E i \in Pitches : 0 < pitch_energy[i] /\ pitch_energy[i] < unit

(* C6: only the bins k with k < n/2 and 70 <= k*sr/n <= 1500 contribute: the
   chroma vector and the final label are those of the spectrum with every
   other bin silenced, and a spectrum with energy only in other bins yields
   "Unknown". *)
C6_OnlyBandBinsContribute ==
    /\ (pc \in {"scanned", "normalized", "ranked", "matched", "done", "panicked"} =>
           pitch_energy = ScanChroma(n, sr, Masked))
    /\ ((pc = "done" /\ n > 0) =>
           /\ result = FindChord(n, sr, Masked)
           /\ ((\A k \in BandBins : input[k] = 0) => result = "Unknown"))

\* energy in a contributing bin, in a bin below the band and in a bin at or
\* beyond n/2 whose frequency lies in the band
C6_Witness ==
    /\ pc = "done"
    /\ result \in ChordLabels
    /\ \E k \in BandBins : input[k] > 0
    /\ \E k \in 0..(n - 1) : k < n \div 2 /\ k * sr < BandLow * n /\ input[k] > 0
    /\ \E k \in 0..(n - 1) :
          /\ k >= n \div 2
          /\ BandLow * n <= k * sr
          /\ k * sr <= BandHigh * n
          /\ input[k] > 0

(* C7: for every rounded MIDI note number m, negative ones included,
   freq_to_pitch returns ((m mod 12) + 12) mod 12, a pitch class in 0..11
   congruent to m modulo 12; 440 Hz is note 69 and maps to 9, 261.63 Hz is
   note 60 and maps to 0. *)
C7_PitchClassInRange ==
    pc = "pitched" =>
        /\ pitch_class = RustRem(RustRem(note_number, 12) + 12, 12)
        /\ pitch_class \in Pitches
        /\ note_number % 12 = pitch_class
        /\ (note_number = 69 => pitch_class = 9)
        /\ (note_number = 60 => pitch_class = 0)
        /\ (freq = <<440, 1>> => note_number = 69)
        /\ (freq = <<26163, 100>> => note_number = 60)

\* a negative note number whose remainder is negative
C7_Witness ==
    /\ pc = "pitched"
    /\ note_number < 0
    /\ RustRem(note_number, 12) < 0
    /\ pitch_class = note_number % 12

\* the analysis band holds no energy
SilentBand == \A k \in BandBins : input[k] = 0

(* C8: a non-empty buffer with no energy in the analysis band (n/2 = 0 and no
   bin frequency in the band included) gives an all-zero chroma vector and 24
   scores of 0, no step of find_chord fails, and the result is "Unknown". *)
C8_SilentBandIsUnknown ==
    (Transformed /\ SilentBand) =>
        /\ pitch_energy = Zeros
        /\ \A r \in Pitches :
              /\ dot(pitch_energy, RolledMajor[r]) = 0
              /\ dot(pitch_energy, RolledMinor[r]) = 0
        /\ best_score = 0
        /\ pc # "panicked"
        /\ ~HasNaN(pitch_energy, unit)
        /\ (pc = "done" => result = "Unknown")

\* energy outside the band only
C8_Witness ==
    /\ pc = "done"
    /\ n > 0
    /\ SilentBand
    /\ \E k \in 0..(n - 1) : input[k] > 0
    /\ pitch_energy = Zeros
    /\ result = "Unknown"

(* C9: roll_template moves the template value at offset i to index
   (i + r) mod 12, so the score of (r, major) is c[r] + c[(r+4) mod 12] +
   c[(r+7) mod 12] and the score of (r, minor) is c[r] + c[(r+3) mod 12] +
   c[(r+7) mod 12]; each rotated template has exactly three entries equal to
   1.0, and the scores of a normalized chroma vector lie in [0, 3]. *)
C9_RolledTemplateScores ==
    pc = "matched" => \A r \in Pitches :
        LET major == RolledMajor[r]
            minor == RolledMinor[r]
            Normalized == \A i \in Pitches :
                              0 <= pitch_energy[i] /\ pitch_energy[i] <= unit
        IN  /\ \A i \in Pitches :
                  /\ major[(i + r) % 12] = MAJOR_TEMPLATE[i]
                  /\ minor[(i + r) % 12] = MINOR_TEMPLATE[i]
            /\ dot(pitch_energy, major) = MajorSum(pitch_energy, r)
            /\ dot(pitch_energy, minor) = MinorSum(pitch_energy, r)
            /\ Cardinality({i \in Pitches : major[i] = 1}) = 3
            /\ Cardinality({i \in Pitches : minor[i] = 1}) = 3
            /\ Cardinality({i \in Pitches : major[i] = 0}) = 9
            /\ Cardinality({i \in Pitches : minor[i] = 0}) = 9
            /\ (Normalized =>
                   /\ 0 <= dot(pitch_energy, major)
                   /\ dot(pitch_energy, major) <= 3 * unit
                   /\ 0 <= dot(pitch_energy, minor)
                   /\ dot(pitch_energy, minor) <= 3 * unit)

\* three different values, and the best score is a sum of three entries
C9_Witness ==
    /\ pc = "matched"
    /\ Cardinality({pitch_energy[i] : i \in Pitches}) = 4
    /\ \E i \in Pitches : pitch_energy[i] = unit
    /\ \E r \in Pitches \ {0} :
          /\ best_score = MajorSum(pitch_energy, r)
          /\ pitch_energy[r] > 0
          /\ pitch_energy[(r + 4) % 12] > 0
          /\ pitch_energy[(r + 7) % 12] > 0

(* C10: for a non-empty buffer the result is "Unknown" exactly when the
   normalized chroma vector is all-zero; otherwise a pitch class p holds the
   maximum 1.0, the score of (p, major) and so the best score is at least 1.0,
   and the threshold does not apply. *)
C10_UnknownIffSilent ==
    (pc = "done" /\ n > 0) =>
        /\ (result = "Unknown" <=> pitch_energy = Zeros)
        /\ (pitch_energy # Zeros =>
               /\ \E p \in Pitches :
                     /\ pitch_energy[p] = unit
                     /\ dot(pitch_energy, RolledMajor[p]) >= unit
               /\ best_score >= unit
               /\ result = best_chord
               /\ result \in ChordLabels)

\* a chord found in the spectrum of a non-empty buffer
C10_Witness ==
    /\ pc = "done"
    /\ n > 0
    /\ pitch_energy # Zeros
    /\ best_score > unit
    /\ result = "C major"

====
